---------------------------- MODULE Spec2Model ----------------------------
(***************************************************************************)
(* A model of the colfi package of Go-SVD-Recommender                      *)
(* (src/colfi/colfi.go): the Dataset identifier encoder, the train/test    *)
(* split, the SVD and SVD++ models and the grid search.                    *)
(*                                                                         *)
(* Numbers.  float32/float64 values are modelled as exact rationals        *)
(* <<num, den>> in lowest terms with den > 0; <<0, 0>> is NaN.  The inputs *)
(* the model draws are small integers and dyadic fractions, for which the  *)
(* few float64 operations of one run are exact, so the rational model and  *)
(* the float64 code agree on them.                                         *)
(*                                                                         *)
(* Ids are 0-based as in the code; the sequences that hold slices and      *)
(* matrix rows are 1-based, so the element of id k is at position k + 1.   *)
(***************************************************************************)
EXTENDS Integers, Sequences, FiniteSets, TLC

VARIABLES
    ds,      \* the Dataset made by NewDataset and grown by Append
    calls,   \* the (u, i, r) arguments of the Append calls on ds, in order
    svd,     \* the SVD model built over ds (NoModel before NewSVD)
    svdpp,   \* the SVDpp model built over ds (NoModel before NewSVDpp)
    trainset, \* the train Dataset DatasetsFromSlices returned (Nil before)
    testset, \* the test Dataset DatasetsFromSlices returned (Nil before)
    out,     \* the last call: its name, its arguments and what it returned
    proc     \* "running", or how the process ended: "panic" | "fatal"

vars == <<ds, calls, svd, svdpp, trainset, testset, out, proc>>

---------------------------------------------------------------------------
(* Bounds of the model.                                                    *)

MaxAppends == 2        \* Append calls on ds
MaxSteps == 2          \* SGD steps (epochs x observations) one model is given
MaxSlice == 3          \* length of the slices given to DatasetsFromSlices
MaxVec == 2            \* length of the slices given to RMSE
MaxGridObs == 2        \* observations in the Datasets given to GridSearch
MaxObs == 3            \* observations of a run that appends after a split

UserIds == {"u1", "u2"}
ItemIds == {"i1", "i2"}
\* identifiers asked of Predict: those of the Dataset and a stranger
QueryUsers == UserIds \cup {"nobody"}
QueryItems == ItemIds \cup {"nothing"}

---------------------------------------------------------------------------
(* Exact arithmetic standing for float64.  A number is <<n, d>>, the      *)
(* rational n/d in lowest terms, or <<n, d, f>> with f a function from     *)
(* square-free radicands r > 1 to non-zero rationals: n/d plus the sum of  *)
(* f[r] * sqrt(r).                                                         *)

Abs(x) == IF x < 0 THEN -x ELSE x

Range(s) == {s[k] : k \in DOMAIN s}

RECURSIVE GCD(_, _)
GCD(a, b) == IF b = 0 THEN a ELSE GCD(b, a % b)

LCM(a, b) == (a \div GCD(a, b)) * b

NaN == <<0, 0>>
IsNaN(x) == x[2] = 0

\* n/d with the common factor g taken out and the sign carried by n
NormBy(n, d, g) ==
    IF d < 0 THEN <<-(n \div g), -(d \div g)>> ELSE <<n \div g, d \div g>>

\* the rational n/d in lowest terms, d # 0
Norm(n, d) == NormBy(n, d, GCD(Abs(n), Abs(d)))

R(n) == <<n, 1>>
Frac(n, d) == Norm(n, d)

\* the rational parts of x and y added and subtracted over the common
\* denominator l
AddOver(x, y, l) == Norm(x[1] * (l \div x[2]) + y[1] * (l \div y[2]), l)
SubOver(x, y, l) == Norm(x[1] * (l \div x[2]) - y[1] * (l \div y[2]), l)
\* the rational parts of x and y multiplied, g1 and g2 cancelled across
MulBy(x, y, g1, g2) ==
    Norm((x[1] \div g1) * (y[1] \div g2), (x[2] \div g2) * (y[2] \div g1))

\* the part of x under roots
RootsOf(x) == IF Len(x) = 2 THEN [r \in {} |-> <<0, 1>>] ELSE x[3]
\* the coefficient of sqrt(r) in x, sqrt(1) standing for the rational part
CoefAt(x, r) ==
    IF r = 1 THEN <<x[1], x[2]>>
    ELSE IF r \in DOMAIN RootsOf(x) THEN RootsOf(x)[r] ELSE <<0, 1>>
\* the number with rational part q and roots f, zero coefficients dropped
Pack(q, f) ==
    IF \A r \in DOMAIN f : f[r][1] = 0 THEN <<q[1], q[2]>>
    ELSE <<q[1], q[2], [r \in {t \in DOMAIN f : f[t][1] # 0} |-> f[r]]>>
\* sqrt(a) * sqrt(b) = GCD(a, b) * sqrt(PairRad(a, b)) for square-free a, b
PairRad(a, b) == (a * b) \div (GCD(a, b) * GCD(a, b))
\* the largest radicand of x
Top(x) ==
    CHOOSE m \in {1} \cup DOMAIN RootsOf(x) :
        \A r \in DOMAIN RootsOf(x) : r <= m

\* The four operations take the values u and v of their operands.
RAdd(x, y) ==
    CHOOSE z \in
      {IF IsNaN(u) \/ IsNaN(v) THEN NaN
       ELSE IF Len(u) = 2 /\ Len(v) = 2 THEN AddOver(u, v, LCM(u[2], v[2]))
       ELSE Pack(AddOver(u, v, LCM(u[2], v[2])),
                 [r \in DOMAIN RootsOf(u) \cup DOMAIN RootsOf(v) |->
                     AddOver(CoefAt(u, r), CoefAt(v, r),
                             LCM(CoefAt(u, r)[2], CoefAt(v, r)[2]))])
         : u \in {x}, v \in {y}} : TRUE

RSub(x, y) ==
    CHOOSE z \in
      {IF IsNaN(u) \/ IsNaN(v) THEN NaN
       ELSE IF Len(u) = 2 /\ Len(v) = 2 THEN SubOver(u, v, LCM(u[2], v[2]))
       ELSE Pack(SubOver(u, v, LCM(u[2], v[2])),
                 [r \in DOMAIN RootsOf(u) \cup DOMAIN RootsOf(v) |->
                     SubOver(CoefAt(u, r), CoefAt(v, r),
                             LCM(CoefAt(u, r)[2], CoefAt(v, r)[2]))])
         : u \in {x}, v \in {y}} : TRUE

\* the coefficient of sqrt(r) in x * y: the sum, over the radicands a in
\* 1..n of x, of the coefficient at a times that of y at PairRad(a, r) times
\* the GCD of the two radicands
RECURSIVE MulCoef(_, _, _, _)
MulCoef(x, y, r, n) ==
    IF n = 0 THEN <<0, 1>>
    ELSE RAdd(MulCoef(x, y, r, n - 1),
              MulBy(CoefAt(x, n),
                    <<CoefAt(y, PairRad(n, r))[1] * GCD(n, PairRad(n, r)),
                      CoefAt(y, PairRad(n, r))[2]>>,
                    1, 1))

RMul(x, y) ==
    CHOOSE z \in
      {IF IsNaN(u) \/ IsNaN(v) THEN NaN
       ELSE IF Len(u) = 2 /\ Len(v) = 2
       THEN MulBy(u, v, GCD(Abs(u[1]), v[2]), GCD(Abs(v[1]), u[2]))
       ELSE Pack(MulCoef(u, v, 1, Top(u)),
                 [r \in {PairRad(a, b) : a \in {1} \cup DOMAIN RootsOf(u),
                                         b \in {1} \cup DOMAIN RootsOf(v)} \ {1} |->
                     MulCoef(u, v, r, Top(u))])
         : u \in {x}, v \in {y}} : TRUE

\* float64 division.  0/0 is NaN (the only division by zero the code
\* meets, a zero sum over a zero count).  The code divides by counts and by
\* math.Sqrt of a count, q * sqrt(r): u / (q * sqrt(r)) is
\* u * sqrt(r) / (q * r).
RDiv(x, y) ==
    CHOOSE z \in
      {IF IsNaN(u) \/ IsNaN(v) \/ (Len(v) = 2 /\ v[1] = 0) THEN NaN
       ELSE IF Len(u) = 2 /\ Len(v) = 2 THEN Norm(u[1] * v[2], u[2] * v[1])
       ELSE IF Len(v) = 2 THEN RMul(u, Norm(v[2], v[1]))
       ELSE RMul(u, <<0, 1, [r \in {Top(v)} |->
                               Norm(CoefAt(v, Top(v))[2],
                                    CoefAt(v, Top(v))[1] * Top(v))]>>)
         : u \in {x}, v \in {y}} : TRUE
\* x < y for rationals
RLess(x, y) == x[1] * y[2] < y[1] * x[2]

Zero == R(0)
One == R(1)
Half == Frac(1, 2)

\* math.Round on a rational: nearest integer, halves away from zero
Round(x) ==
    LET n == x[1]
        d == x[2]
    IN  IF n >= 0 THEN (2 * n + d) \div (2 * d)
        ELSE -((2 * (-n) + d) \div (2 * d))

---------------------------------------------------------------------------
(* Dataset.                                                                *)

\* the values a rating takes (float32, exactly representable)
RatingVals == {R(1), R(4)}

\* a Go map[string]int: a function whose domain is the set of keys
EmptyMap == [k \in {} |-> 0]
MapLen(m) == Cardinality(DOMAIN m)
MapPut(m, k, v) == [x \in (DOMAIN m) \cup {k} |-> IF x = k THEN v ELSE m[x]]

NewDataset ==
    [Users |-> <<>>, Items |-> <<>>, Ratings |-> <<>>,
     UserMap |-> EmptyMap, ItemMap |-> EmptyMap]

\* getInternalIDs with the item id taken from the size of the user map
getInternalIDs_mut(d, u, i) ==
    LET uid == IF u \in DOMAIN d.UserMap THEN d.UserMap[u] ELSE MapLen(d.UserMap)
        um == IF u \in DOMAIN d.UserMap THEN d.UserMap ELSE MapPut(d.UserMap, u, uid)
        iid == IF i \in DOMAIN d.ItemMap THEN d.ItemMap[i] ELSE MapLen(um)
    IN  [uid |-> uid, iid |-> iid,
         UserMap |-> um,
         ItemMap |-> IF i \in DOMAIN d.ItemMap THEN d.ItemMap
                     ELSE MapPut(d.ItemMap, i, iid)]

\* getInternalIDs: look the two strings up, giving a new string the next id
getInternalIDs(d, u, i) ==
    LET uid == IF u \in DOMAIN d.UserMap THEN d.UserMap[u] ELSE MapLen(d.UserMap)
        iid == IF i \in DOMAIN d.ItemMap THEN d.ItemMap[i] ELSE MapLen(d.ItemMap)
    IN  [uid |-> uid, iid |-> iid,
         UserMap |-> IF u \in DOMAIN d.UserMap THEN d.UserMap
                     ELSE MapPut(d.UserMap, u, uid),
         ItemMap |-> IF i \in DOMAIN d.ItemMap THEN d.ItemMap
                     ELSE MapPut(d.ItemMap, i, iid)]

\* the three appends of Append, g being what getInternalIDs gave
AppendIDs(d, g, r) ==
    [Users |-> Append(d.Users, g.uid),
     Items |-> Append(d.Items, g.iid),
     Ratings |-> Append(d.Ratings, r),
     UserMap |-> g.UserMap,
     ItemMap |-> g.ItemMap]

\* Dataset.Append as a function of the Dataset
DatasetAppend(d, u, i, r) == AppendIDs(d, getInternalIDs(d, u, i), r)

NoModel == [built |-> FALSE]
NoCall == [op |-> "none"]
Nil == [nil |-> TRUE]

---------------------------------------------------------------------------
(* SVD: construction.                                                      *)

\* The process-wide generator behind rand.NormFloat64: a stream <<a, b>>
\* yields a, b, a, b, ...; the k-th draw (k >= 1) is StreamAt(s, k).
NormVals == {R(0), R(1)}
Streams == NormVals \X NormVals
StreamAt(s, k) == IF k % 2 = 1 THEN s[1] ELSE s[2]
\* the stream that is left of s after n draws
Shift(s, n) == IF n % 2 = 0 THEN s ELSE <<s[2], s[1]>>

\* The configurations handed to NewSVD (Verbose only logs; it is left out).
Configs ==
    {[NumFactors |-> 1, InitMean |-> Zero, InitStdDev |-> One, LR |-> Half, Reg |-> One],
     [NumFactors |-> 2, InitMean |-> Zero, InitStdDev |-> One, LR |-> Half, Reg |-> One]}

DefaultNumFactors == 50
DefaultInitStdDev == Frac(1, 10)
DefaultLR == Frac(5, 1000)
DefaultReg == Frac(2, 100)

\* config = &SVDConfig{}: the all-zero config a nil config is replaced by
ZeroConfig ==
    [NumFactors |-> 0, InitMean |-> Zero, InitStdDev |-> Zero, LR |-> Zero,
     Reg |-> Zero]

\* if config == nil { config = &SVDConfig{} } (lines 82-84, 179-181)
OrZero(config) == IF config = Nil THEN ZeroConfig ELSE config

\* the four checks of lines 85-96 (182-193) on a config that is not nil
FillDefaults(config) ==
    [NumFactors |-> IF config.NumFactors = 0 THEN DefaultNumFactors
                    ELSE config.NumFactors,
     InitMean   |-> config.InitMean,
     InitStdDev |-> IF config.InitStdDev = Zero THEN DefaultInitStdDev
                    ELSE config.InitStdDev,
     LR         |-> IF config.LR = Zero THEN DefaultLR ELSE config.LR,
     Reg        |-> IF config.Reg = Zero THEN DefaultReg ELSE config.Reg]

\* the config of the model: a nil config taken as all-zero, then the
\* zero-valued fields replaced by their defaults
WithDefaults(config) == FillDefaults(OrZero(config))

\* randMat: an r x c matrix whose row-major entry k is draw * stdDev + mean,
\* the draws being those after the first `off` of stream s
randMat(mean, stdDev, r, c, s, off) ==
    [a \in 1..r |->
        [b \in 1..c |->
            RAdd(RMul(StreamAt(s, off + (a - 1) * c + b), stdDev), mean)]]

RECURSIVE SumSeq(_, _)
SumSeq(s, k) == IF k = 0 THEN Zero ELSE RAdd(SumSeq(s, k - 1), s[k])

\* mean32: the sum of the ratings over their number (NaN for none)
mean32(s) == RDiv(SumSeq(s, Len(s)), R(Len(s)))

\* mat.NewDense panics on a matrix with no rows or no columns
DensePanics(r, c) == r <= 0 \/ c <= 0

\* NewSVD(dataset, config) with the generator yielding stream s
NewSVD(d, config, s) ==
    LET cfg == WithDefaults(config)
        nu == MapLen(d.UserMap)
        ni == MapLen(d.ItemMap)
        nf == cfg.NumFactors
    IN  IF DensePanics(nu, nf) \/ DensePanics(ni, nf)
        THEN [panic |-> TRUE, m |-> NoModel]
        ELSE [panic |-> FALSE,
              m |-> [built |-> TRUE,
                     PU |-> randMat(cfg.InitMean, cfg.InitStdDev, nu, nf, s, 0),
                     QI |-> randMat(cfg.InitMean, cfg.InitStdDev, ni, nf, s, nu * nf),
                     BU |-> [k \in 1..nu |-> Zero],
                     BI |-> [k \in 1..ni |-> Zero],
                     GlobalMean |-> mean32(d.Ratings),
                     Config |-> cfg,
                     steps |-> 0]]

---------------------------------------------------------------------------
(* SVDpp: construction.                                                    *)

\* m.IU[u] = append(m.IU[u], i) (lines 203-207), on a missing key too
IUAppend(iu, uid, item) ==
    [u \in (DOMAIN iu) \cup {uid} |->
        IF u = uid
        THEN Append(IF uid \in DOMAIN iu THEN iu[uid] ELSE <<>>, item)
        ELSE iu[u]]

\* the loop of NewSVDpp over the first k observations (lines 202-208): the
\* item of each observation is appended to the history of its user
RECURSIVE BuildIU(_, _)
BuildIU(d, k) ==
    IF k = 0 THEN [u \in {} |-> <<>>]
    ELSE IUAppend(BuildIU(d, k - 1), d.Users[k], d.Items[k])

\* NewSVDpp(dataset, config) with the generator yielding stream s; on a
\* Dataset without observations len(Ratings) / len(Users) divides by zero
NewSVDpp(d, config, s) ==
    LET cfg == WithDefaults(config)
        nu == MapLen(d.UserMap)
        ni == MapLen(d.ItemMap)
        nf == cfg.NumFactors
    IN  IF Len(d.Users) = 0 \/ DensePanics(nu, nf) \/ DensePanics(ni, nf)
        THEN [panic |-> TRUE, m |-> NoModel]
        ELSE [panic |-> FALSE,
              m |-> [built |-> TRUE,
                     PU |-> randMat(cfg.InitMean, cfg.InitStdDev, nu, nf, s, 0),
                     QI |-> randMat(cfg.InitMean, cfg.InitStdDev, ni, nf, s, nu * nf),
                     YJ |-> randMat(cfg.InitMean, cfg.InitStdDev, ni, nf, s,
                                    nu * nf + ni * nf),
                     BU |-> [k \in 1..nu |-> Zero],
                     BI |-> [k \in 1..ni |-> Zero],
                     IU |-> BuildIU(d, Len(d.Ratings)),
                     GlobalMean |-> mean32(d.Ratings),
                     Config |-> cfg,
                     steps |-> 0]]

---------------------------------------------------------------------------
(* DatasetsFromSlices.                                                     *)

\* the permutations of 1 .. n: what rand.Perm(n) can return, shifted by one
Perms(n) == {p \in [1..n -> 1..n] : \A a, b \in 1..n : a # b => p[a] # p[b]}

\* the slices read at p[j] with j the index of the range loop, not its value
SliceIndex_mut(p, lo, k) == p[k - lo + 1]

\* the slice position the loops of lines 64-66 and 68-70 read for position k
\* of the permutation, in the loop over p[lo - 1:]: j is p[k] and the slices
\* are read at p[j]
SliceIndex(p, lo, k) == p[p[k]]

\* positions lo .. hi of permutation p appended, in order, to Dataset d
RECURSIVE AppendRange(_, _, _, _, _, _, _)
AppendRange(d, u, i, r, p, lo, hi) ==
    IF lo > hi THEN d
    ELSE LET x == SliceIndex(p, lo, hi)
         IN  DatasetAppend(AppendRange(d, u, i, r, p, lo, hi - 1),
                           u[x], i[x], r[x])

\* trainNum := int(math.Round(float64(n) * (1. - split)))
TrainNum(n, split) == Round(RMul(R(n), RSub(One, split)))

\* the checks with a split of 1 refused
SplitCheck_mut(u, i, r, split) ==
    IF Len(u) # Len(i) \/ Len(u) # Len(r)
    THEN "u, i and r slices must be the same length"
    ELSE IF RLess(split, Zero) \/ ~RLess(split, One)
    THEN "split must be between 0 and 1"
    ELSE "nil"

\* the two checks of lines 54-60: the error returned, "nil" for none
SplitCheck(u, i, r, split) ==
    IF Len(u) # Len(i) \/ Len(u) # Len(r)
    THEN "u, i and r slices must be the same length"
    ELSE IF RLess(split, Zero) \/ RLess(One, split)
    THEN "split must be between 0 and 1"
    ELSE "nil"

\* the two loops (lines 63-70): the first trainNum positions of p to train,
\* the others to test
SplitAt(u, i, r, p, trainNum) ==
    [train |-> AppendRange(NewDataset, u, i, r, p, 1, trainNum),
     test |-> AppendRange(NewDataset, u, i, r, p, trainNum + 1, Len(u)),
     err |-> "nil", perm |-> TRUE]

\* after the checks gave err: nothing is drawn or built on an error
SplitChecked(u, i, r, split, p, err) ==
    IF err # "nil"
    THEN [train |-> Nil, test |-> Nil, err |-> err, perm |-> FALSE]
    ELSE SplitAt(u, i, r, p, TrainNum(Len(u), split))

\* DatasetsFromSlices(u, i, r, split) with rand.Perm returning p
DatasetsFromSlices(u, i, r, split, p) ==
    SplitChecked(u, i, r, split, p, SplitCheck(u, i, r, split))

---------------------------------------------------------------------------
(* SVD: Fit.                                                               *)

\* dot += pu.At(u, f) * qi.At(i, f) for f = 0 .. numFactors - 1
RECURSIVE DotLoop(_, _, _)
DotLoop(prow, qrow, f) ==
    IF f = 0 THEN Zero
    ELSE RAdd(DotLoop(prow, qrow, f - 1), RMul(prow[f], qrow[f]))

\* bu[u] += lr * (err - reg*bu[u])
BiasUpdate(b, err, lr, reg) == RAdd(b, RMul(lr, RSub(err, RMul(reg, b))))

\* one factor of the inner loop of Fit (lines 137-140): puf and qif are read
\* first, then both are set from them
FactorUpdate(puf, qif, err, lr, reg) ==
    [p |-> RAdd(puf, RMul(lr, RSub(RMul(err, qif), RMul(reg, puf)))),
     q |-> RAdd(qif, RMul(lr, RSub(RMul(err, puf), RMul(reg, qif))))]

\* the same lines of the second definition of Fit in the file (558-561)
FactorUpdateSecond(puf, qif, err, lr, reg) ==
    [p |-> RMul(lr, RSub(RMul(err, qif), RMul(reg, puf))),
     q |-> RMul(lr, RSub(RMul(err, puf), RMul(reg, qif)))]

\* the loop over the factors, f = 1 .. nf, on row u of PU and row i of QI;
\* FactorSet stores the pair n computed for factor f and goes on
RECURSIVE FactorLoop(_, _, _, _, _, _, _, _)
RECURSIVE FactorSet(_, _, _, _, _, _, _, _, _)
FactorSet(prow, qrow, f, nf, err, lr, reg, second, n) ==
    FactorLoop([prow EXCEPT ![f] = n.p], [qrow EXCEPT ![f] = n.q],
               f + 1, nf, err, lr, reg, second)

FactorLoop(prow, qrow, f, nf, err, lr, reg, second) ==
    IF f > nf THEN [p |-> prow, q |-> qrow]
    ELSE FactorSet(prow, qrow, f, nf, err, lr, reg, second,
                   IF second
                   THEN FactorUpdateSecond(prow[f], qrow[f], err, lr, reg)
                   ELSE FactorUpdate(prow[f], qrow[f], err, lr, reg))

\* the estimate Fit forms for observation (u, i) from the current parameters
FitEstimate(m, u, i) ==
    RAdd(RAdd(RAdd(m.GlobalMean, m.BU[u + 1]), m.BI[i + 1]),
         DotLoop(m.PU[u + 1], m.QI[i + 1], m.Config.NumFactors))

\* the stores of lines 134-140, rows being the two rows the factor loop gave
SGDStore(m, u, i, err, rows) ==
    [m EXCEPT !.BU[u + 1] = BiasUpdate(m.BU[u + 1], err, m.Config.LR, m.Config.Reg),
              !.BI[i + 1] = BiasUpdate(m.BI[i + 1], err, m.Config.LR, m.Config.Reg),
              !.PU[u + 1] = rows.p,
              !.QI[i + 1] = rows.q,
              !.steps = m.steps + 1]

\* lines 134-141 once err is computed: the bias updates and the factor loop
SGDUpdate(m, u, i, err, second) ==
    SGDStore(m, u, i, err,
             FactorLoop(m.PU[u + 1], m.QI[i + 1], 1, m.Config.NumFactors,
                        err, m.Config.LR, m.Config.Reg, second))

\* the body of the loop over idx (lines 126-141) for observation (u, i, r)
SGDStep(m, u, i, r, second) ==
    SGDUpdate(m, u, i, RSub(r, FitEstimate(m, u, i)), second)

\* an id the Dataset gave out after the model was built has no row: the
\* read of pu, qi, bu or bi panics (index out of range)
OutOfRange(m, u, i) == u >= Len(m.BU) \/ i >= Len(m.BI)

\* steps k .. total - 1 of the two loops of Fit, step k being observation
\* k mod numRatings of epoch k div numRatings; FitAt is the step at
\* index idx of the Dataset
RECURSIVE FitLoop(_, _, _, _, _)
RECURSIVE FitAt(_, _, _, _, _, _)
FitAt(m, d, k, total, second, idx) ==
    IF OutOfRange(m, d.Users[idx], d.Items[idx]) THEN [panic |-> TRUE, m |-> m]
    ELSE FitLoop(SGDStep(m, d.Users[idx], d.Items[idx], d.Ratings[idx], second),
                 d, k + 1, total, second)

FitLoop(m, d, k, total, second) ==
    IF k >= total THEN [panic |-> FALSE, m |-> m]
    ELSE FitAt(m, d, k, total, second, (k % Len(d.Ratings)) + 1)

\* m.Fit(numEpochs) over Dataset d (first definition, lines 111-144)
Fit(m, d, numEpochs) ==
    FitLoop(m, d, 0, (IF numEpochs < 0 THEN 0 ELSE numEpochs) * Len(d.Ratings), FALSE)

\* m.Fit(numEpochs), second definition in the file (lines 532-565)
FitSecond(m, d, numEpochs) ==
    FitLoop(m, d, 0, (IF numEpochs < 0 THEN 0 ELSE numEpochs) * Len(d.Ratings), TRUE)

---------------------------------------------------------------------------
(* SVD: Predict.                                                           *)

\* mat.Dot of two rows
Dot(prow, qrow) == DotLoop(prow, qrow, Len(prow))

\* if c { p += x }
AddIf(c, p, x) == IF c THEN RAdd(p, x) ELSE p

\* lines 147-159 once the two lookups gave (uid, uok) and (iid, iok); read
\* is the set of parameter cells the call reads
PredictIDs(m, uok, iok, uid, iid) ==
    IF (uok /\ uid >= Len(m.BU)) \/ (iok /\ iid >= Len(m.BI))
    THEN [panic |-> TRUE, val |-> NaN, read |-> {}]
    ELSE [panic |-> FALSE,
          val |-> AddIf(uok /\ iok,
                        AddIf(iok,
                              AddIf(uok, m.GlobalMean, m.BU[uid + 1]),
                              m.BI[iid + 1]),
                        Dot(m.PU[uid + 1], m.QI[iid + 1])),
          read |-> (IF uok THEN {<<"BU", uid>>} ELSE {})
                   \cup (IF iok THEN {<<"BI", iid>>} ELSE {})
                   \cup (IF uok /\ iok
                         THEN {<<"PU", uid>>, <<"QI", iid>>} ELSE {})]

\* m.Predict(u, i), first definition (lines 146-160): [panic, val, read]
Predict(m, d, u, i) ==
    PredictIDs(m, u \in DOMAIN d.UserMap, i \in DOMAIN d.ItemMap,
               IF u \in DOMAIN d.UserMap THEN d.UserMap[u] ELSE 0,
               IF i \in DOMAIN d.ItemMap THEN d.ItemMap[i] ELSE 0)

\* line 570 on the ids the two lookups gave
PredictSecondIDs(m, uid, iid) ==
    IF uid >= Len(m.BU) \/ iid >= Len(m.BI)
    THEN [panic |-> TRUE, val |-> NaN, read |-> {}]
    ELSE [panic |-> FALSE,
          val |-> RAdd(RAdd(RAdd(m.GlobalMean, m.BU[uid + 1]), m.BI[iid + 1]),
                       Dot(m.PU[uid + 1], m.QI[iid + 1])),
          read |-> {<<"BU", uid>>, <<"BI", iid>>, <<"PU", uid>>, <<"QI", iid>>}]

\* m.Predict(u, i), second definition in the file (lines 567-571): a map
\* miss yields the zero value, id 0
PredictSecond(m, d, u, i) ==
    PredictSecondIDs(m, IF u \in DOMAIN d.UserMap THEN d.UserMap[u] ELSE 0,
                     IF i \in DOMAIN d.ItemMap THEN d.ItemMap[i] ELSE 0)

---------------------------------------------------------------------------
(* SVDpp: Fit and Predict.                                                 *)

\* the history of user u, a nil slice for a key the map lacks
HistOf(m, u) == IF u \in DOMAIN m.IU THEN m.IU[u] ELSE <<>>

\* the largest k whose square divides n, n > 0
SquarePart(n) ==
    CHOOSE k \in 1..n :
        /\ n % (k * k) = 0
        /\ \A j \in (k + 1)..n : n % (j * j) # 0

\* math.Sqrt(float64(n)) of a count n, as k * sqrt(r) with r square-free
SqrtInt(n) ==
    IF n = 0 THEN Zero
    ELSE IF SquarePart(n) * SquarePart(n) = n THEN R(SquarePart(n))
    ELSE <<0, 1, [r \in {n \div (SquarePart(n) * SquarePart(n))} |->
                    R(SquarePart(n))]>>

\* uImpFdb[f] += yj.At(item, f) / sqrtU over the first k items of hist
RECURSIVE ImpLoop(_, _, _, _, _)
ImpLoop(yj, hist, f, sqrtU, k) ==
    IF k = 0 THEN Zero
    ELSE RAdd(ImpLoop(yj, hist, f, sqrtU, k - 1), RDiv(yj[hist[k] + 1][f], sqrtU))

\* uImpFdb of user u (lines 246-252)
UImpFdb(m, u) ==
    [f \in 1..m.Config.NumFactors |->
        ImpLoop(m.YJ, HistOf(m, u), f, SqrtInt(Len(HistOf(m, u))), Len(HistOf(m, u)))]

\* dot += (pu.At(u, f) + uImpFdb[f]) * qi.At(i, f) for the first f factors
RECURSIVE DotPPLoop(_, _, _, _)
DotPPLoop(prow, imp, qrow, f) ==
    IF f = 0 THEN Zero
    ELSE RAdd(DotPPLoop(prow, imp, qrow, f - 1),
              RMul(RAdd(prow[f], imp[f]), qrow[f]))

\* the estimate SVDpp.Fit forms for observation (u, i) (lines 254-258), imp
\* being uImpFdb
FitEstimatePP(m, u, i, imp) ==
    RAdd(RAdd(RAdd(m.GlobalMean, m.BU[u + 1]), m.BI[i + 1]),
         DotPPLoop(m.PU[u + 1], imp, m.QI[i + 1], m.Config.NumFactors))

\* yj.Set(item, f, yj.At(item, f)+lr*(errQIF-reg*yj.At(item, f)))
YJUpdate(y, errQIF, lr, reg) == RAdd(y, RMul(lr, RSub(errQIF, RMul(reg, y))))

\* the loop over the items of hist from the k-th on (lines 268-270)
RECURSIVE YJLoop(_, _, _, _, _, _, _)
YJLoop(yj, hist, f, errQIF, lr, reg, k) ==
    IF k > Len(hist) THEN yj
    ELSE YJLoop([yj EXCEPT ![hist[k] + 1][f] = YJUpdate(@, errQIF, lr, reg)],
                hist, f, errQIF, lr, reg, k + 1)

\* the loop over the factors (lines 262-271) on st = [p, q, yj]: row u of
\* PU, row i of QI and the matrix YJ
RECURSIVE FactorLoopPP(_, _, _, _, _, _, _, _, _)
FactorLoopPP(st, f, nf, imp, hist, sqrtU, err, lr, reg) ==
    IF f > nf THEN st
    ELSE FactorLoopPP(
           [p |-> [st.p EXCEPT ![f] =
                     RAdd(st.p[f],
                          RMul(lr, RSub(RMul(err, st.q[f]), RMul(reg, st.p[f]))))],
            q |-> [st.q EXCEPT ![f] =
                     RAdd(st.q[f],
                          RMul(lr, RSub(RMul(err, RAdd(st.p[f], imp[f])),
                                        RMul(reg, st.q[f]))))],
            yj |-> YJLoop(st.yj, hist, f, RDiv(RMul(err, st.q[f]), sqrtU),
                          lr, reg, 1)],
           f + 1, nf, imp, hist, sqrtU, err, lr, reg)

\* the stores of lines 259-270 with a store to GlobalMean added
SGDStorePP_mut(m, u, i, err, st) ==
    [m EXCEPT !.BU[u + 1] = BiasUpdate(m.BU[u + 1], err, m.Config.LR, m.Config.Reg),
              !.BI[i + 1] = BiasUpdate(m.BI[i + 1], err, m.Config.LR, m.Config.Reg),
              !.PU[u + 1] = st.p,
              !.QI[i + 1] = st.q,
              !.YJ = st.yj,
              !.GlobalMean = RAdd(m.GlobalMean, RMul(m.Config.LR, err)),
              !.steps = m.steps + 1]

\* the stores of lines 259-270, st being what the factor loop gave
SGDStorePP(m, u, i, err, st) ==
    [m EXCEPT !.BU[u + 1] = BiasUpdate(m.BU[u + 1], err, m.Config.LR, m.Config.Reg),
              !.BI[i + 1] = BiasUpdate(m.BI[i + 1], err, m.Config.LR, m.Config.Reg),
              !.PU[u + 1] = st.p,
              !.QI[i + 1] = st.q,
              !.YJ = st.yj,
              !.steps = m.steps + 1]

\* lines 259-271 once uImpFdb and err are computed
SGDUpdatePP(m, u, i, imp, err) ==
    SGDStorePP(m, u, i, err,
               FactorLoopPP([p |-> m.PU[u + 1], q |-> m.QI[i + 1], yj |-> m.YJ],
                            1, m.Config.NumFactors, imp, HistOf(m, u),
                            SqrtInt(Len(HistOf(m, u))), err,
                            m.Config.LR, m.Config.Reg))

\* lines 254-271 once uImpFdb is computed
SGDErrPP(m, u, i, r, imp) ==
    SGDUpdatePP(m, u, i, imp, RSub(r, FitEstimatePP(m, u, i, imp)))

\* the body of the loop over idx (lines 242-271) for observation (u, i, r)
SGDStepPP(m, u, i, r) == SGDErrPP(m, u, i, r, UImpFdb(m, u))

\* steps k .. total - 1 of the two loops of SVDpp.Fit
RECURSIVE FitLoopPP(_, _, _, _)
RECURSIVE FitAtPP(_, _, _, _, _)
FitAtPP(m, d, k, total, idx) ==
    IF OutOfRange(m, d.Users[idx], d.Items[idx]) THEN [panic |-> TRUE, m |-> m]
    ELSE FitLoopPP(SGDStepPP(m, d.Users[idx], d.Items[idx], d.Ratings[idx]),
                   d, k + 1, total)

FitLoopPP(m, d, k, total) ==
    IF k >= total THEN [panic |-> FALSE, m |-> m]
    ELSE FitAtPP(m, d, k, total, (k % Len(d.Ratings)) + 1)

\* m.Fit(numEpochs) of an SVDpp model over Dataset d (lines 224-274)
FitPP(m, d, numEpochs) ==
    FitLoopPP(m, d, 0, (IF numEpochs < 0 THEN 0 ELSE numEpochs) * Len(d.Ratings))

\* uImp.AddVec(uImp, m.YJ.RowView(item)) over the first k items of hist,
\* for factor f
RECURSIVE ImpSum(_, _, _, _)
ImpSum(yj, hist, f, k) ==
    IF k = 0 THEN Zero
    ELSE RAdd(ImpSum(yj, hist, f, k - 1), yj[hist[k] + 1][f])

\* uImp of lines 287-292: the sum of the YJ rows of the history, scaled by
\* 1/sqrt of its length, with row iid of QI added
UImpVec(m, uid, iid) ==
    [f \in 1..m.Config.NumFactors |->
        RAdd(RMul(RDiv(One, SqrtInt(Len(HistOf(m, uid)))),
                  ImpSum(m.YJ, HistOf(m, uid), f, Len(HistOf(m, uid)))),
             m.QI[iid + 1][f])]

\* lines 277-295 once the two lookups gave (uid, uok) and (iid, iok)
PredictPPIDs(m, uok, iok, uid, iid) ==
    IF (uok /\ uid >= Len(m.BU)) \/ (iok /\ iid >= Len(m.BI))
    THEN [panic |-> TRUE, val |-> NaN]
    ELSE [panic |-> FALSE,
          val |-> AddIf(uok /\ iok,
                        AddIf(iok,
                              AddIf(uok, m.GlobalMean, m.BU[uid + 1]),
                              m.BI[iid + 1]),
                        Dot(m.PU[uid + 1], UImpVec(m, uid, iid)))]

\* m.Predict(u, i) of an SVDpp model (lines 276-296): [panic, val]
PredictPP(m, d, u, i) ==
    PredictPPIDs(m, u \in DOMAIN d.UserMap, i \in DOMAIN d.ItemMap,
                 IF u \in DOMAIN d.UserMap THEN d.UserMap[u] ELSE 0,
                 IF i \in DOMAIN d.ItemMap THEN d.ItemMap[i] ELSE 0)

---------------------------------------------------------------------------
(* Actions.                                                                *)

Init ==
    /\ ds = NewDataset
    /\ calls = <<>>
    /\ svd = NoModel
    /\ svdpp = NoModel
    /\ trainset = Nil
    /\ testset = Nil
    /\ out = NoCall
    /\ proc = "running"

\* ds.Append(u, i, r), before or after a model is built over ds; a model
\* holds the pointer to ds and sees the observations appended since.  After
\* a split the Datasets of the run hold at most MaxObs observations.
DoAppend ==
    /\ proc = "running"
    /\ Len(calls) < MaxAppends
    /\ trainset # Nil =>
         Len(calls) + Len(trainset.Ratings) + Len(testset.Ratings) < MaxObs
    /\ \E u \in UserIds, i \in ItemIds, r \in RatingVals :
         /\ ds' = DatasetAppend(ds, u, i, r)
         /\ calls' = Append(calls, <<u, i, r>>)
         /\ out' = [op |-> "Append", u |-> u, i |-> i, r |-> r]
    /\ UNCHANGED <<svd, svdpp, trainset, testset, proc>>

\* the caller's view of NewSVD having given n
NewSVDEffect(config, n) ==
    /\ svd' = n.m
    /\ proc' = IF n.panic THEN "panic" ELSE "running"
    /\ out' = [op |-> "NewSVD", config |-> config, panic |-> n.panic]

\* svd = NewSVD(ds, config): a Dataset without users or items makes
\* mat.NewDense panic
DoNewSVD ==
    /\ proc = "running"
    /\ \E config \in Configs, s \in Streams :
         NewSVDEffect(config, NewSVD(ds, config, s))
    /\ UNCHANGED <<ds, calls, svdpp, trainset, testset>>

\* the caller's view of Fit (definition def) having given f
FitEffect(def, numEpochs, f) ==
    /\ svd' = f.m
    /\ proc' = IF f.panic THEN "panic" ELSE "running"
    /\ out' = [op |-> "Fit", def |-> def, numEpochs |-> numEpochs,
               before |-> svd, panic |-> f.panic]

\* svd.Fit(numEpochs), first definition
DoFit ==
    /\ proc = "running"
    /\ svd.built
    /\ \E numEpochs \in 0..MaxSteps :
         /\ svd.steps + numEpochs * Len(ds.Ratings) <= MaxSteps
         /\ FitEffect(1, numEpochs, Fit(svd, ds, numEpochs))
    /\ UNCHANGED <<ds, calls, svdpp, trainset, testset>>

\* svd.Fit(numEpochs), second definition in the file
DoFitSecond ==
    /\ proc = "running"
    /\ svd.built
    /\ \E numEpochs \in 0..MaxSteps :
         /\ svd.steps + numEpochs * Len(ds.Ratings) <= MaxSteps
         /\ FitEffect(2, numEpochs, FitSecond(svd, ds, numEpochs))
    /\ UNCHANGED <<ds, calls, svdpp, trainset, testset>>

\* the caller's view of Predict (definition def) having given p
PredictEffect(def, u, i, p) ==
    /\ proc' = IF p.panic THEN "panic" ELSE "running"
    /\ out' = [op |-> "Predict", def |-> def, u |-> u, i |-> i,
               val |-> p.val, read |-> p.read, panic |-> p.panic]

\* svd.Predict(u, i), first definition
DoPredict ==
    /\ proc = "running"
    /\ svd.built
    /\ \E u \in QueryUsers, i \in QueryItems :
         PredictEffect(1, u, i, Predict(svd, ds, u, i))
    /\ UNCHANGED <<ds, calls, svd, svdpp, trainset, testset>>

\* svd.Predict(u, i), second definition in the file
DoPredictSecond ==
    /\ proc = "running"
    /\ svd.built
    /\ \E u \in QueryUsers, i \in QueryItems :
         PredictEffect(2, u, i, PredictSecond(svd, ds, u, i))
    /\ UNCHANGED <<ds, calls, svd, svdpp, trainset, testset>>

\* the caller's view of NewSVDpp having given n
NewSVDppEffect(config, n) ==
    /\ svdpp' = n.m
    /\ proc' = IF n.panic THEN "panic" ELSE "running"
    /\ out' = [op |-> "NewSVDpp", config |-> config, panic |-> n.panic]

\* svdpp = NewSVDpp(ds, config)
DoNewSVDpp ==
    /\ proc = "running"
    /\ \E config \in Configs, s \in Streams :
         NewSVDppEffect(config, NewSVDpp(ds, config, s))
    /\ UNCHANGED <<ds, calls, svd, trainset, testset>>

\* the configs with zero-valued fields, and the nil config
ZeroConfigs ==
    {Nil, ZeroConfig} \cup
    [NumFactors : {0, 2}, InitMean : {One}, InitStdDev : {Zero, One},
     LR : {Zero, Half}, Reg : {Zero, One}]

\* the streams drawn from when a model is built from these configs
ZeroStreams == {<<R(0), R(1)>>, <<R(1), R(1)>>}

\* svd = NewSVD(ds, config) on a config with zero-valued fields or nil, the
\* one model of the run (main builds one)
DoNewSVDZero ==
    /\ proc = "running"
    /\ ~svd.built /\ ~svdpp.built
    /\ \E config \in ZeroConfigs, s \in ZeroStreams :
         NewSVDEffect(config, NewSVD(ds, config, s))
    /\ UNCHANGED <<ds, calls, svdpp, trainset, testset>>

\* svdpp = NewSVDpp(ds, config) on a config with zero-valued fields or nil
DoNewSVDppZero ==
    /\ proc = "running"
    /\ ~svd.built /\ ~svdpp.built
    /\ \E config \in ZeroConfigs, s \in ZeroStreams :
         NewSVDppEffect(config, NewSVDpp(ds, config, s))
    /\ UNCHANGED <<ds, calls, svd, trainset, testset>>

\* the caller's view of SVDpp.Fit having given f
FitPPEffect(numEpochs, f) ==
    /\ svdpp' = f.m
    /\ proc' = IF f.panic THEN "panic" ELSE "running"
    /\ out' = [op |-> "FitPP", numEpochs |-> numEpochs, before |-> svdpp,
               panic |-> f.panic]

\* svdpp.Fit(numEpochs).  A step of SVDpp.Fit does per factor what a step of
\* SVD.Fit does, and more: the bound is on steps times factors.
DoFitPP ==
    /\ proc = "running"
    /\ svdpp.built
    /\ \E numEpochs \in 0..MaxSteps :
         /\ (svdpp.steps + numEpochs * Len(ds.Ratings)) * svdpp.Config.NumFactors
               <= MaxSteps
         /\ FitPPEffect(numEpochs, FitPP(svdpp, ds, numEpochs))
    /\ UNCHANGED <<ds, calls, svd, trainset, testset>>

\* the caller's view of SVDpp.Predict having given p
PredictPPEffect(u, i, p) ==
    /\ proc' = IF p.panic THEN "panic" ELSE "running"
    /\ out' = [op |-> "PredictPP", u |-> u, i |-> i, val |-> p.val,
               panic |-> p.panic]

\* svdpp.Predict(u, i)
DoPredictPP ==
    /\ proc = "running"
    /\ svdpp.built
    /\ \E u \in QueryUsers, i \in QueryItems :
         PredictPPEffect(u, i, PredictPP(svdpp, ds, u, i))
    /\ UNCHANGED <<ds, calls, svd, svdpp, trainset, testset>>

\* the observations the slices given to DatasetsFromSlices are made of
ObsVals == {<<"u1", "i1", R(1)>>, <<"u2", "i1", R(3)>>, <<"u2", "i2", R(1)>>}
\* the values of split: dyadic, so that float64 computes n * (1 - split) exactly
SplitVals == {Frac(-1, 4), Zero, Frac(1, 4), Half, Frac(3, 4), One, Frac(5, 4)}

Column(obs, j) == [k \in 1..Len(obs) |-> obs[k][j]]
DropLast(s) == SubSeq(s, 1, Len(s) - 1)

\* the slice triples: the columns of up to MaxSlice observations, whole or
\* with one of them an element short
SliceInputs ==
    LET seqs == UNION {[1..n -> ObsVals] : n \in 0..MaxSlice}
        whole == {<<Column(o, 1), Column(o, 2), Column(o, 3)>> : o \in seqs}
        long == {t \in whole : Len(t[1]) >= 1}
    IN  whole
        \cup {<<DropLast(t[1]), t[2], t[3]>> : t \in long}
        \cup {<<t[1], DropLast(t[2]), t[3]>> : t \in long}
        \cup {<<t[1], t[2], DropLast(t[3])>> : t \in long}

\* the caller's view of DatasetsFromSlices having given res
SplitEffect(u, i, r, split, p, res) ==
    /\ trainset' = res.train
    /\ testset' = res.test
    /\ out' = [op |-> "DatasetsFromSlices", u |-> u, i |-> i, r |-> r,
               split |-> split,
               p |-> IF res.perm THEN p ELSE <<>>,
               err |-> res.err, perm |-> res.perm]

\* trainset, testset, err = DatasetsFromSlices(u, i, r, split), the first
\* call of a run (main)
DoDatasetsFromSlices ==
    /\ proc = "running"
    /\ out = NoCall
    /\ \E t \in SliceInputs, split \in SplitVals : \E p \in Perms(Len(t[1])) :
         SplitEffect(t[1], t[2], t[3], split, p,
                     DatasetsFromSlices(t[1], t[2], t[3], split, p))
    /\ UNCHANGED <<ds, calls, svd, svdpp, proc>>

---------------------------------------------------------------------------
(* RMSE and GridSearch.                                                    *)

\* math.Sqrt(q), kept as the number it is the root of
SqrtOf(q) == [sqrtOf |-> q]

\* math.Pow(e, 2.)
Square(e) == RMul(e, e)

\* s += math.Pow(pred[i]-actual[i], 2.) over the first k elements
RECURSIVE SumSquares(_, _, _)
SumSquares(pred, actual, k) ==
    IF k = 0 THEN Zero
    ELSE RAdd(SumSquares(pred, actual, k - 1), Square(RSub(pred[k], actual[k])))

\* RMSE(pred, actual): log.Fatalf ends the process when the lengths differ
RMSE(pred, actual) ==
    IF Len(pred) # Len(actual)
    THEN [fatal |-> TRUE, val |-> SqrtOf(NaN)]
    ELSE [fatal |-> FALSE,
          val |-> SqrtOf(RDiv(SumSquares(pred, actual, Len(pred)), R(Len(pred))))]

\* reverseMap: the map from each value of m to a key that has it (the key,
\* for the maps a Dataset builds, which give no id twice)
reverseMap(m) ==
    [v \in {m[k] : k \in DOMAIN m} |-> CHOOSE k \in DOMAIN m : m[k] = v]

\* lines 382-383: the rating and the prediction pr appended
ScoreAdd(prev, pr, rating) ==
    IF pr.panic THEN [prev EXCEPT !.status = "panic"]
    ELSE [status |-> "ok",
          pred |-> Append(prev.pred, pr.val),
          actual |-> Append(prev.actual, rating)]

\* the string that has id v in map m, "" for none
NameOf(m, v) ==
    IF \E k \in DOMAIN m : m[k] = v THEN CHOOSE k \in DOMAIN m : m[k] = v
    ELSE ""

\* the loop body with the ids of the test Dataset taken as ids of the train
\* Dataset
ScoreAt_mut(prev, m, train, test, urm, irm, k) ==
    IF prev.status # "ok" THEN prev
    ELSE IF test.Users[k] \notin DOMAIN urm \/ test.Items[k] \notin DOMAIN irm
    THEN [prev EXCEPT !.status = "fatal"]
    ELSE ScoreAdd(prev,
                  Predict(m, train, NameOf(train.UserMap, test.Users[k]),
                          NameOf(train.ItemMap, test.Items[k])),
                  test.Ratings[k])

\* the body of the loop (lines 374-383) for test observation k, prev being
\* what the earlier passes gave
ScoreAt(prev, m, train, test, urm, irm, k) ==
    IF prev.status # "ok" THEN prev
    ELSE IF test.Users[k] \notin DOMAIN urm \/ test.Items[k] \notin DOMAIN irm
    THEN [prev EXCEPT !.status = "fatal"]
    ELSE ScoreAdd(prev,
                  Predict(m, train, urm[test.Users[k]], irm[test.Items[k]]),
                  test.Ratings[k])

\* the loop of testModel over the first k test observations (lines 373-384):
\* the predictions, or the fatal end on an id the reverse maps lack
RECURSIVE ScoreLoop(_, _, _, _, _, _)
ScoreLoop(m, train, test, urm, irm, k) ==
    IF k = 0 THEN [status |-> "ok", pred |-> <<>>, actual |-> <<>>]
    ELSE ScoreAt(ScoreLoop(m, train, test, urm, irm, k - 1),
                 m, train, test, urm, irm, k)

\* return RMSE(pred, actual) (line 385), l being what RMSE gave
testLoss(l) ==
    IF l.fatal THEN [status |-> "fatal", loss |-> SqrtOf(NaN), fits |-> 1]
    ELSE [status |-> "ok", loss |-> l.val, fits |-> 1]

\* after the loop of lines 373-384, sc being what it gave
testScored(sc) ==
    IF sc.status # "ok"
    THEN [status |-> sc.status, loss |-> SqrtOf(NaN), fits |-> 1]
    ELSE testLoss(RMSE(sc.pred, sc.actual))

\* after m.Fit(numEpochs) (line 370), f being what it gave
testFitted(f, train, test, urm, irm) ==
    IF f.panic THEN [status |-> "panic", loss |-> SqrtOf(NaN), fits |-> 1]
    ELSE testScored(ScoreLoop(f.m, train, test, urm, irm, Len(test.Ratings)))

\* after m := NewSVD(trainset, config) (line 369), n being what it gave
testBuilt(n, train, test, numEpochs, urm, irm) ==
    IF n.panic THEN [status |-> "panic", loss |-> SqrtOf(NaN), fits |-> 0]
    ELSE testFitted(Fit(n.m, train, numEpochs), train, test, urm, irm)

\* testModel (lines 367-386) with the generator yielding stream s
testModel(train, test, numEpochs, config, urm, irm, s) ==
    testBuilt(NewSVD(train, config, s), train, test, numEpochs, urm, irm)

\* the number of draws NewSVD makes for config over Dataset d
DrawsOf(d, config) ==
    (MapLen(d.UserMap) + MapLen(d.ItemMap)) * WithDefaults(config).NumFactors

\* config := &SVDConfig{...} (lines 339-344)
GridConfig(numFactors, reg, lr, initStdDev) ==
    [NumFactors |-> numFactors, InitMean |-> Zero,
     InitStdDev |-> initStdDev, LR |-> lr, Reg |-> reg]

\* test := GridSearchTestResult{...}; tests = append(tests, test) (lines
\* 349-358) after testModel gave t and the generator made `draws` draws.
\* Runtime, a wall-clock reading, is left out of the result.
GridRecord(acc, t, numEpochs, numFactors, reg, lr, initStdDev, draws) ==
    [status |-> t.status,
     tests |-> IF t.status = "ok"
               THEN Append(acc.tests,
                           [NumEpochs |-> numEpochs, NumFactors |-> numFactors,
                            Reg |-> reg, LR |-> lr, InitStdDev |-> initStdDev,
                            Loss |-> t.loss])
               ELSE acc.tests,
     models |-> acc.models + 1,
     fits |-> acc.fits + t.fits,
     draws |-> acc.draws + draws]

\* the body of the innermost loop of GridSearch (lines 337-358) for one
\* combination; nothing runs once the process has ended
GridStep(c, acc, numEpochs, numFactors, reg, lr, initStdDev) ==
    IF acc.status # "ok" THEN acc
    ELSE GridRecord(acc,
                    testModel(c.train, c.test, numEpochs,
                              GridConfig(numFactors, reg, lr, initStdDev),
                              c.urm, c.irm, Shift(c.s, acc.draws)),
                    numEpochs, numFactors, reg, lr, initStdDev,
                    DrawsOf(c.train, GridConfig(numFactors, reg, lr, initStdDev)))

\* the five nested loops of GridSearch (lines 332-363), outermost first
RECURSIVE LoopInitStdDev(_, _, _, _, _, _, _)
LoopInitStdDev(c, acc, e, f, r, l, k) ==
    IF k > Len(c.p.InitStdDev) THEN acc
    ELSE LoopInitStdDev(c, GridStep(c, acc, e, f, r, l, c.p.InitStdDev[k]),
                        e, f, r, l, k + 1)

RECURSIVE LoopLR(_, _, _, _, _, _)
LoopLR(c, acc, e, f, r, k) ==
    IF k > Len(c.p.LR) THEN acc
    ELSE LoopLR(c, LoopInitStdDev(c, acc, e, f, r, c.p.LR[k], 1), e, f, r, k + 1)

RECURSIVE LoopReg(_, _, _, _, _)
LoopReg(c, acc, e, f, k) ==
    IF k > Len(c.p.Reg) THEN acc
    ELSE LoopReg(c, LoopLR(c, acc, e, f, c.p.Reg[k], 1), e, f, k + 1)

RECURSIVE LoopNumFactors(_, _, _, _)
LoopNumFactors(c, acc, e, k) ==
    IF k > Len(c.p.NumFactors) THEN acc
    ELSE LoopNumFactors(c, LoopReg(c, acc, e, c.p.NumFactors[k], 1), e, k + 1)

RECURSIVE LoopNumEpochs(_, _, _)
LoopNumEpochs(c, acc, k) ==
    IF k > Len(c.p.NumEpochs) THEN acc
    ELSE LoopNumEpochs(c, LoopNumFactors(c, acc, c.p.NumEpochs[k], 1), k + 1)

\* numTests (line 324)
NumTests(p) ==
    Len(p.NumEpochs) * Len(p.NumFactors) * Len(p.Reg) * Len(p.LR) * Len(p.InitStdDev)

\* the check made only for a negative count
GridFatal_mut(p) == NumTests(p) < 0

\* the check of lines 325-327: log.Fatalln ends the process
GridFatal(p) == NumTests(p) < 1

\* GridSearch(trainset, testset, p) with the generator yielding stream s:
\* how it ended, the results, and the models built and Fit calls made
GridSearch(train, test, p, s) ==
    LET acc0 == [status |-> "ok", tests |-> <<>>, models |-> 0, fits |-> 0,
                 draws |-> 0]
    IN  IF GridFatal(p) THEN [acc0 EXCEPT !.status = "fatal"]
        ELSE LoopNumEpochs([p |-> p, train |-> train, test |-> test,
                            urm |-> reverseMap(test.UserMap),
                            irm |-> reverseMap(test.ItemMap), s |-> s],
                           acc0, 1)

\* the parameter lists given to GridSearch
Grid(e, f, r, l, sd) ==
    [NumEpochs |-> e, NumFactors |-> f, Reg |-> r, LR |-> l, InitStdDev |-> sd]

ParamSets ==
    {Grid(<<1>>, <<1>>, <<One>>, <<Half>>, <<One>>),
     Grid(<<1>>, <<2, 1, 3>>, <<One>>, <<Half>>, <<One>>),
     Grid(<<2, 1>>, <<1, 2>>, <<One>>, <<Half>>, <<One>>),
     Grid(<<0>>, <<1>>, <<One, Half>>, <<Half, One>>, <<One, Half>>),
     Grid(<<>>, <<1>>, <<One>>, <<Half>>, <<One>>),
     Grid(<<1>>, <<>>, <<One>>, <<Half>>, <<One>>),
     Grid(<<1>>, <<1>>, <<>>, <<Half>>, <<One>>),
     Grid(<<1>>, <<1>>, <<One>>, <<>>, <<One>>),
     Grid(<<1>>, <<1, 2>>, <<One>>, <<Half>>, <<>>),
     Grid(<<>>, <<>>, <<>>, <<>>, <<>>)}

MaxOf(s) == CHOOSE x \in Range(s) \cup {0} : \A y \in Range(s) \cup {0} : y <= x

\* results = GridSearch(trainset, testset, p), on the Datasets of a split
\* that returned no error (main ends the process on one)
\* the caller's view of GridSearch having given g: the results, or the
\* process ended
GridEffect(p, g) ==
    /\ proc' = IF g.status = "ok" THEN "running" ELSE g.status
    /\ out' = [op |-> "GridSearch", p |-> p, status |-> g.status,
               tests |-> g.tests, models |-> g.models, fits |-> g.fits]

DoGridSearch ==
    /\ proc = "running"
    /\ trainset # Nil
    /\ out.op = "DatasetsFromSlices"
    /\ Len(trainset.Ratings) + Len(testset.Ratings) <= MaxGridObs
    /\ \E p \in ParamSets, s \in Streams :
         /\ MaxOf(p.NumEpochs) * Len(trainset.Ratings) <= MaxSteps
         /\ GridEffect(p, GridSearch(trainset, testset, p, s))
    /\ UNCHANGED <<ds, calls, svd, svdpp, trainset, testset>>

\* the parameter lists of the searches whose scoring is looked at
ScoreParamSets ==
    {Grid(<<1>>, <<1>>, <<One>>, <<Half>>, <<One>>),
     Grid(<<0, 1>>, <<2, 1>>, <<One>>, <<Half>>, <<One>>)}

\* the caller's view of GridSearch having given g, with the arguments of
\* the split and the stream kept beside the results
ScoreEffect(p, s, g) ==
    /\ proc' = IF g.status = "ok" THEN "running" ELSE g.status
    /\ out' = [op |-> "GridScore", p |-> p, s |-> s, split |-> out,
               status |-> g.status, tests |-> g.tests]

\* results = GridSearch(trainset, testset, p) on the Datasets of a split of
\* up to MaxGridObs + 1 observations, at most two of them in train (the
\* parameters fitted on three need more than 32 bits when scored)
DoGridScore ==
    /\ proc = "running"
    /\ trainset # Nil
    /\ out.op = "DatasetsFromSlices"
    /\ Len(trainset.Ratings) + Len(testset.Ratings) <= MaxGridObs + 1
    /\ Len(trainset.Ratings) <= 2
    /\ \E p \in ScoreParamSets, s \in Streams :
         /\ MaxOf(p.NumEpochs) * Len(trainset.Ratings) <= MaxSteps
         /\ ScoreEffect(p, s, GridSearch(trainset, testset, p, s))
    /\ UNCHANGED <<ds, calls, svd, svdpp, trainset, testset>>

\* the values in the slices given to RMSE
VecVals == {R(0), R(1), R(3)}
Vecs == UNION {[1..n -> VecVals] : n \in 0..MaxVec}

\* the caller's view of RMSE having given l
RMSEEffect(pred, actual, l) ==
    /\ proc' = IF l.fatal THEN "fatal" ELSE "running"
    /\ out' = [op |-> "RMSE", pred |-> pred, actual |-> actual,
               fatal |-> l.fatal, val |-> l.val]

\* RMSE(pred, actual), called on its own
DoRMSE ==
    /\ proc = "running"
    /\ out = NoCall
    /\ \E pred \in Vecs, actual \in Vecs :
         RMSEEffect(pred, actual, RMSE(pred, actual))
    /\ UNCHANGED <<ds, calls, svd, svdpp, trainset, testset>>

\* The package as it stands at the head of the file (lines 1-436).
Next ==
    \/ DoAppend
    \/ DoNewSVD
    \/ DoFit
    \/ DoPredict

Spec == Init /\ [][Next]_vars

\* The package with the second definitions of Fit and Predict that the file
\* holds (lines 438-579).
NextSecond ==
    \/ DoAppend
    \/ DoNewSVD
    \/ DoFitSecond
    \/ DoPredictSecond

SpecSecond == Init /\ [][NextSecond]_vars

\* The SVD++ model over a Dataset.
NextPP ==
    \/ DoAppend
    \/ DoNewSVDpp

SpecPP == Init /\ [][NextPP]_vars

\* The construction of the two models from any config.
NextConfig ==
    \/ DoAppend
    \/ DoNewSVDZero
    \/ DoNewSVDppZero

SpecConfig == Init /\ [][NextConfig]_vars

\* A run that works with one of the three: an SVD model, an SVD++ model, or
\* a grid search over the Datasets of a split.
FrameNewSVD == trainset = Nil /\ ~svd.built /\ ~svdpp.built /\ DoNewSVD
FrameNewSVDpp == trainset = Nil /\ ~svd.built /\ ~svdpp.built /\ DoNewSVDpp

NextFrame ==
    \/ DoAppend
    \/ FrameNewSVD
    \/ DoFit
    \/ DoPredict
    \/ FrameNewSVDpp
    \/ DoFitPP
    \/ DoPredictPP
    \/ DoDatasetsFromSlices
    \/ DoGridSearch

SpecFrame == Init /\ [][NextFrame]_vars

\* The train/test split.
NextSplit ==
    \/ DoDatasetsFromSlices

SpecSplit == Init /\ [][NextSplit]_vars

\* The grid search over the Datasets of a split.
NextGrid ==
    \/ DoDatasetsFromSlices
    \/ DoGridSearch

SpecGrid == Init /\ [][NextGrid]_vars

\* The split followed by a grid search whose scoring is looked at.
NextScore ==
    \/ DoDatasetsFromSlices
    \/ DoGridScore

SpecScore == Init /\ [][NextScore]_vars

\* RMSE on its own.
NextRMSE ==
    \/ DoRMSE

SpecRMSE == Init /\ [][NextRMSE]_vars

---------------------------------------------------------------------------
(* Properties.                                                             *)

\* the distinct elements of s in the order of their first occurrence
RECURSIVE FirstSeen(_)
FirstSeen(s) ==
    IF s = <<>> THEN <<>>
    ELSE LET front == FirstSeen(SubSeq(s, 1, Len(s) - 1))
         IN  IF s[Len(s)] \in Range(front) THEN front
             ELSE Append(front, s[Len(s)])

\* the j-th argument of the Append calls, in call order
ArgsOf(j) == [k \in 1..Len(calls) |-> calls[k][j]]

\* map m gives the k-th string of firsts the id k - 1 and holds nothing else
EncodesInOrder(m, firsts) ==
    /\ DOMAIN m = Range(firsts)
    /\ \A k \in 1..Len(firsts) : m[firsts[k]] = k - 1

C1_State ==
    /\ Len(ds.Users) = Len(calls)
    /\ Len(ds.Items) = Len(calls)
    /\ Len(ds.Ratings) = Len(calls)
    /\ EncodesInOrder(ds.UserMap, FirstSeen(ArgsOf(1)))
    /\ EncodesInOrder(ds.ItemMap, FirstSeen(ArgsOf(2)))
    /\ \A k \in 1..Len(ds.Users) :
         /\ ds.Users[k] >= 0 /\ ds.Users[k] < MapLen(ds.UserMap)
         /\ ds.Items[k] >= 0 /\ ds.Items[k] < MapLen(ds.ItemMap)
    /\ \A u, v \in DOMAIN ds.UserMap : u # v => ds.UserMap[u] # ds.UserMap[v]
    /\ \A i, j \in DOMAIN ds.ItemMap : i # j => ds.ItemMap[i] # ds.ItemMap[j]

C1_Step ==
    /\ \A u \in DOMAIN ds.UserMap :
         u \in DOMAIN ds'.UserMap /\ ds'.UserMap[u] = ds.UserMap[u]
    /\ \A i \in DOMAIN ds.ItemMap :
         i \in DOMAIN ds'.ItemMap /\ ds'.ItemMap[i] = ds.ItemMap[i]

\* C1: after n Append calls the three slices have length n, the k-th distinct
\* user (item) string met has id k - 1, every stored id is below the size of
\* its map, no two strings share an id, and no step changes the id of a
\* string that has one.
C1_AppendEncodes == [](C1_State) /\ [][C1_Step]_vars

\* two Appends that brought two users and two items: ids 0 and 1 given out
C1_Witness ==
    /\ Len(calls) >= 2
    /\ calls[1][1] # calls[2][1] /\ calls[1][2] # calls[2][2]
    /\ ds.Users[2] = 1 /\ ds.Items[2] = 1
    /\ ds.UserMap[calls[1][1]] = 0 /\ ds.ItemMap[calls[2][2]] = 1

\* the sum of p[f] * q[f] over the factors
RefDot(p, q) == SumSeq([f \in 1..Len(p) |-> RMul(p[f], q[f])], Len(p))

\* what C4 says Predict(u, i) returns on model m over Dataset d
C4_Expected(m, d, u, i) ==
    LET uok == u \in DOMAIN d.UserMap
        iok == i \in DOMAIN d.ItemMap
        bu == IF uok THEN m.BU[d.UserMap[u] + 1] ELSE Zero
        bi == IF iok THEN m.BI[d.ItemMap[i] + 1] ELSE Zero
        lat == IF uok /\ iok
               THEN RefDot(m.PU[d.UserMap[u] + 1], m.QI[d.ItemMap[i] + 1])
               ELSE Zero
    IN  RAdd(RAdd(RAdd(m.GlobalMean, bu), bi), lat)

\* C4: Predict(u, i) returns GlobalMean + BU[uid] + BI[iid] + PU[uid].QI[iid]
\* for known identifiers, leaves out the bias and the latent term of an
\* unknown user or item (GlobalMean alone when both are unknown), never
\* fails on an unknown identifier and reads no parameter on its behalf.
C4_PredictColdStart ==
    (out.op = "Predict") =>
        /\ ~out.panic
        /\ out.val = C4_Expected(svd, ds, out.u, out.i)
        /\ out.u \notin DOMAIN ds.UserMap =>
              \A c \in out.read : c[1] \notin {"BU", "PU", "QI"}
        /\ out.i \notin DOMAIN ds.ItemMap =>
              \A c \in out.read : c[1] \notin {"BI", "PU", "QI"}

\* Predict has answered for an unknown user and a known item, on a model
\* whose row 0 would have changed the answer
C4_Witness ==
    /\ out.op = "Predict" /\ ~out.panic
    /\ out.u \notin DOMAIN ds.UserMap /\ out.i \in DOMAIN ds.ItemMap
    /\ RefDot(svd.PU[1], svd.QI[ds.ItemMap[out.i] + 1]) # Zero

\* one SGD step as C5 states it: err from the parameters before the step,
\* every new value computed from the values before the step
C5_RefStep(m, u, i, r) ==
    LET lr == m.Config.LR
        reg == m.Config.Reg
        p == m.PU[u + 1]
        q == m.QI[i + 1]
        err == RSub(r, RAdd(RAdd(RAdd(m.GlobalMean, m.BU[u + 1]), m.BI[i + 1]),
                            RefDot(p, q)))
    IN  [PU |-> [m.PU EXCEPT ![u + 1] =
                    [f \in 1..Len(p) |->
                        RAdd(p[f], RMul(lr, RSub(RMul(err, q[f]), RMul(reg, p[f]))))]],
         QI |-> [m.QI EXCEPT ![i + 1] =
                    [f \in 1..Len(q) |->
                        RAdd(q[f], RMul(lr, RSub(RMul(err, p[f]), RMul(reg, q[f]))))]],
         BU |-> [m.BU EXCEPT ![u + 1] =
                    RAdd(m.BU[u + 1], RMul(lr, RSub(err, RMul(reg, m.BU[u + 1]))))],
         BI |-> [m.BI EXCEPT ![i + 1] =
                    RAdd(m.BI[i + 1], RMul(lr, RSub(err, RMul(reg, m.BI[i + 1]))))],
         GlobalMean |-> m.GlobalMean,
         Config |-> m.Config]

\* one pass over observations 1 .. k of d in stored order
RECURSIVE C5_RefEpoch(_, _, _)
C5_RefEpoch(m, d, k) ==
    IF k = 0 THEN m
    ELSE C5_RefStep(C5_RefEpoch(m, d, k - 1), d.Users[k], d.Items[k], d.Ratings[k])

\* e passes, each over all the observations
RECURSIVE C5_RefFit(_, _, _)
C5_RefFit(m, d, e) ==
    IF e = 0 THEN m
    ELSE C5_RefEpoch(C5_RefFit(m, d, e - 1), d, Len(d.Ratings))

Params(m) == [PU |-> m.PU, QI |-> m.QI, BU |-> m.BU, BI |-> m.BI,
              GlobalMean |-> m.GlobalMean, Config |-> m.Config]

AllZero(m) ==
    /\ \A a \in DOMAIN m.PU : \A f \in DOMAIN m.PU[a] : m.PU[a][f] = Zero
    /\ \A a \in DOMAIN m.QI : \A f \in DOMAIN m.QI[a] : m.QI[a][f] = Zero
    /\ \A a \in DOMAIN m.BU : m.BU[a] = Zero
    /\ \A a \in DOMAIN m.BI : m.BI[a] = Zero

\* C5: Fit(numEpochs) leaves the parameters that numEpochs passes of the
\* stated SGD step, over the observations in stored order, produce from the
\* parameters before the call; with one observation and all-zero parameters
\* Fit(1) leaves BU[0] = BI[0] = lr * (r - GlobalMean) and PU[0] all zero.
C5_FitUpdates ==
    (out.op = "Fit") =>
        /\ ~out.panic
        /\ Params(svd) = Params(C5_RefFit(out.before, ds, out.numEpochs))
        /\ (Len(ds.Ratings) = 1 /\ out.numEpochs = 1 /\ AllZero(out.before)) =>
              LET b == RMul(svd.Config.LR, RSub(ds.Ratings[1], svd.GlobalMean))
              IN  /\ svd.BU[1] = b /\ svd.BI[1] = b
                  /\ \A f \in DOMAIN svd.PU[1] : svd.PU[1][f] = Zero

\* Fit has made two steps over two observations of the same user, from
\* non-zero factors
C5_Witness ==
    /\ out.op = "Fit" /\ ~out.panic /\ out.numEpochs = 1
    /\ Len(ds.Ratings) = 2 /\ ds.Users = <<0, 0>>
    /\ out.before.PU[1][1] # Zero
    /\ svd.PU # out.before.PU

\* the split call returned Datasets
SplitDone == out.op = "DatasetsFromSlices" /\ out.err = "nil"

\* C2: the two Datasets hold the n observations between them and
\* test holds round(n * split) of them, halves rounded away from zero.
C2_TestIsRounded ==
    SplitDone =>
        /\ Len(trainset.Ratings) + Len(testset.Ratings) = Len(out.u)
        /\ Len(testset.Ratings) = Round(RMul(R(Len(out.u)), out.split))

\* the (user, item, rating) triples Dataset d holds, decoded to strings
Triples(d) ==
    LET urm == reverseMap(d.UserMap)
        irm == reverseMap(d.ItemMap)
    IN  [k \in 1..Len(d.Ratings) |-> <<urm[d.Users[k]], irm[d.Items[k]], d.Ratings[k]>>]

Count(s, x) == Cardinality({k \in DOMAIN s : s[k] = x})

\* C3: whatever permutation is drawn, every input observation is in train or
\* in test and in one of them only: each triple occurs in the two Datasets
\* together as often as in the input.
C3_SplitKeepsObservations ==
    SplitDone =>
        LET input == [k \in 1..Len(out.u) |-> <<out.u[k], out.i[k], out.r[k]>>]
            tr == Triples(trainset)
            te == Triples(testset)
        IN  \A x \in Range(input) \cup Range(tr) \cup Range(te) :
                Count(input, x) = Count(tr, x) + Count(te, x)

\* three different observations split under a permutation that is not its
\* own square, into a train and a test Dataset that both hold some
C3_Witness ==
    /\ SplitDone
    /\ Len(out.u) = 3
    /\ \A a, b \in 1..3 : a # b =>
          <<out.u[a], out.i[a], out.r[a]>> # <<out.u[b], out.i[b], out.r[b]>>
    /\ \E k \in 1..3 : out.p[out.p[k]] # out.p[k] /\ out.p[out.p[k]] # k
    /\ Len(trainset.Ratings) >= 1 /\ Len(testset.Ratings) >= 1

\* C6: slices of unequal length, or a split below 0 or above 1, give an
\* error and no Dataset, before any permutation is drawn; equal lengths and
\* a split in [0, 1] give no error.
C6_SplitErrors ==
    (out.op = "DatasetsFromSlices") =>
        LET bad == \/ Len(out.u) # Len(out.i)
                   \/ Len(out.u) # Len(out.r)
                   \/ Len(out.i) # Len(out.r)
                   \/ out.split[1] < 0
                   \/ out.split[1] > out.split[2]
        IN  /\ bad => /\ out.err # "nil"
                      /\ trainset = Nil /\ testset = Nil
                      /\ ~out.perm
            /\ ~bad => /\ out.err = "nil"
                       /\ trainset # Nil /\ testset # Nil

\* a split of exactly 1 was accepted, and a split above 1 is refused
C6_Witness ==
    /\ out.op = "DatasetsFromSlices"
    /\ out.split = One /\ Len(out.u) = 2
    /\ out.err = "nil" /\ trainset # Nil

\* the lists of p are all non-empty
AllNonEmpty(p) ==
    /\ p.NumEpochs # <<>> /\ p.NumFactors # <<>> /\ p.Reg # <<>>
    /\ p.LR # <<>> /\ p.InitStdDev # <<>>

\* the k-th combination (k >= 1) of the cross product of the lists of p, the
\* InitStdDev list running fastest and the NumEpochs list slowest
Combination(p, k) ==
    LET nS == Len(p.InitStdDev)
        nL == Len(p.LR)
        nR == Len(p.Reg)
        nF == Len(p.NumFactors)
        j == k - 1
    IN  [NumEpochs  |-> p.NumEpochs[(j \div (nS * nL * nR * nF)) + 1],
         NumFactors |-> p.NumFactors[((j \div (nS * nL * nR)) % nF) + 1],
         Reg        |-> p.Reg[((j \div (nS * nL)) % nR) + 1],
         LR         |-> p.LR[((j \div nS) % nL) + 1],
         InitStdDev |-> p.InitStdDev[(j % nS) + 1]]

\* C7: a GridSearch over five non-empty lists returns one result per
\* combination of the cross product, in the nested order epochs, factors,
\* reg, lr, init-stddev, the k-th echoing the k-th combination.
C7_GridOrder ==
    (out.op = "GridSearch" /\ AllNonEmpty(out.p)) =>
        /\ out.status = "ok"
        /\ Len(out.tests) = NumTests(out.p)
        /\ Len(out.tests) = out.models
        /\ \A k \in 1..Len(out.tests) :
              LET c == Combination(out.p, k)
                  t == out.tests[k]
              IN  /\ t.NumEpochs = c.NumEpochs
                  /\ t.NumFactors = c.NumFactors
                  /\ t.Reg = c.Reg
                  /\ t.LR = c.LR
                  /\ t.InitStdDev = c.InitStdDev

\* C8: RMSE on slices of unequal length hands the caller an error
\* and the process goes on.
C8_RMSERecoverable ==
    (out.op = "RMSE" /\ Len(out.pred) # Len(out.actual)) => proc = "running"

\* C9: a GridSearch given an empty list ends in the fatal state with no
\* model built, no Fit run and no result produced.
C9_EmptyListFatal ==
    (out.op = "GridSearch" /\ ~AllNonEmpty(out.p)) =>
        /\ proc = "fatal"
        /\ out.status = "fatal"
        /\ out.models = 0
        /\ out.fits = 0
        /\ out.tests = <<>>

\* a search with its last list empty and two factor counts has ended
C9_Witness ==
    /\ out.op = "GridSearch"
    /\ out.p.InitStdDev = <<>> /\ Len(out.p.NumFactors) = 2
    /\ Len(trainset.Ratings) >= 1
    /\ proc = "fatal"

\* the items of the observations of user uid, in observation order
ItemsOf(d, uid) ==
    LET F[k \in 0..Len(d.Users)] ==
            IF k = 0 THEN <<>>
            ELSE IF d.Users[k] = uid THEN Append(F[k - 1], d.Items[k])
            ELSE F[k - 1]
    IN  F[Len(d.Users)]

\* C10: after NewSVDpp the history IU[u] of every encoded user u holds each
\* item u rated once, in first-rated order, so that its length is the
\* number of distinct items u rated and at least 1.
C10_HistoryDistinct ==
    svdpp.built =>
        \A uid \in 0..(MapLen(ds.UserMap) - 1) :
            /\ uid \in DOMAIN svdpp.IU
            /\ svdpp.IU[uid] = FirstSeen(ItemsOf(ds, uid))
            /\ Len(svdpp.IU[uid]) = Cardinality(Range(ItemsOf(ds, uid)))
            /\ Len(svdpp.IU[uid]) >= 1

\* what C11 says a field of the model's config is, given the field of the
\* config handed in and its default
C11_Field(config, given, default, zero) ==
    IF config = Nil THEN default
    ELSE IF given = zero THEN default ELSE given

\* the config is nil or holds a zero-valued field
C11_ZeroOrNil(c) ==
    \/ c = Nil
    \/ c.NumFactors = 0 \/ c.InitStdDev = Zero \/ c.LR = Zero \/ c.Reg = Zero

\* what C11 says of model m, the result of a constructor given out.config
C11_ConfigOf(m) ==
    LET c == out.config
        g == IF c = Nil THEN ZeroConfig ELSE c
    IN  /\ C11_ZeroOrNil(c) => m.built /\ ~out.panic
        /\ m.built =>
             /\ m.Config.NumFactors = C11_Field(c, g.NumFactors, 50, 0)
             /\ m.Config.InitStdDev = C11_Field(c, g.InitStdDev, Frac(1, 10), Zero)
             /\ m.Config.LR = C11_Field(c, g.LR, Frac(5, 1000), Zero)
             /\ m.Config.Reg = C11_Field(c, g.Reg, Frac(2, 100), Zero)
             /\ m.Config.InitMean = g.InitMean
             /\ m.Config.NumFactors # 0 /\ m.Config.InitStdDev # Zero
             /\ m.Config.LR # Zero /\ m.Config.Reg # Zero
             /\ Len(m.PU[1]) = m.Config.NumFactors

\* C11: NewSVD and NewSVDpp never fail on a nil config or one with
\* zero-valued fields: nil is taken as all-zero, each zero-valued field gets
\* its default (NumFactors 50, InitStdDev 0.1, LR 0.005, Reg 0.02, InitMean
\* stays as given) and every other field is kept, so the model's Config has
\* no zero NumFactors, InitStdDev, LR or Reg.
C11_ConfigDefaults ==
    /\ out.op = "NewSVD" => C11_ConfigOf(svd)
    /\ out.op = "NewSVDpp" => C11_ConfigOf(svdpp)

\* the position in the slices given to the split of test observation k
C12_Input(k) ==
    LET sp == out.split
    IN  sp.p[sp.p[Len(trainset.Ratings) + k]]

\* the number of draws the models before the j-th have made
RECURSIVE C12_Draws(_)
C12_Draws(j) ==
    IF j <= 1 THEN 0
    ELSE C12_Draws(j - 1)
         + (MapLen(trainset.UserMap) + MapLen(trainset.ItemMap))
           * out.tests[j - 1].NumFactors

\* the loss C12 says the j-th result holds: the model of the j-th
\* combination, fitted on train, is asked for each test observation's
\* original strings, and the answers are paired with the ratings in order
C12_Loss(j) ==
    LET t == out.tests[j]
        cfg == [NumFactors |-> t.NumFactors, InitMean |-> Zero,
                InitStdDev |-> t.InitStdDev, LR |-> t.LR, Reg |-> t.Reg]
        m == Fit(NewSVD(trainset, cfg, Shift(out.s, C12_Draws(j))).m,
                 trainset, t.NumEpochs).m
        sp == out.split
        n == Len(testset.Ratings)
        pred == [k \in 1..n |->
                   Predict(m, trainset, sp.u[C12_Input(k)], sp.i[C12_Input(k)]).val]
        actual == [k \in 1..n |-> sp.r[C12_Input(k)]]
    IN  RMSE(pred, actual).val

\* C12: in a GridSearch over Datasets the split built, every id of the test
\* Dataset resolves through the reverse maps to the string given for that
\* observation, the unresolved-id fatal end is not reached, and every loss
\* is the RMSE of Predict on the original strings of the test observations,
\* looked up in the train Dataset's encoding, against their ratings in
\* order.
C12_ScoringDecodes ==
    (out.op = "GridScore") =>
        /\ \A k \in 1..Len(testset.Ratings) :
              /\ testset.Users[k] \in DOMAIN reverseMap(testset.UserMap)
              /\ testset.Items[k] \in DOMAIN reverseMap(testset.ItemMap)
              /\ reverseMap(testset.UserMap)[testset.Users[k]]
                    = out.split.u[C12_Input(k)]
              /\ reverseMap(testset.ItemMap)[testset.Items[k]]
                    = out.split.i[C12_Input(k)]
        /\ out.status # "fatal"
        /\ out.status = "ok" =>
              \A j \in 1..Len(out.tests) : out.tests[j].Loss = C12_Loss(j)

\* a search has scored a fitted model on a test observation whose user has
\* one id in train and another in test
C12_Witness ==
    /\ out.op = "GridScore" /\ out.status = "ok"
    /\ Len(out.tests) >= 1 /\ out.tests[1].NumEpochs = 1
    /\ Len(testset.Ratings) >= 1
    /\ \E u \in DOMAIN testset.UserMap :
          /\ u \in DOMAIN trainset.UserMap
          /\ trainset.UserMap[u] # testset.UserMap[u]
    /\ ~IsNaN(out.tests[1].Loss.sqrtOf)

---------------------------------------------------------------------------
(* C13: what Fit, Predict and GridSearch leave alone.                      *)

\* the calls the claim is about
FrameOps == {"Fit", "Predict", "FitPP", "PredictPP", "GridSearch"}

\* the step is a call of Fit, Predict or GridSearch
FrameCall == out' # out /\ out'.op \in FrameOps

\* model m (before) and n (after) hold the same GlobalMean
SameMean(m, n) == m.built /\ n.built => n.GlobalMean = m.GlobalMean

\* the step builds no model
NoBuild == out'.op \notin {"NewSVD", "NewSVDpp"}

\* C13: every call of Fit or Predict on an SVD or SVDpp model, and every
\* GridSearch, leaves the Datasets it reads as they were (Users, Items,
\* Ratings, UserMap, ItemMap); GlobalMean is the mean of the ratings when
\* the model is built and no later step moves it, and so is the history IU
\* of an SVDpp model; a call of Predict leaves every field of the model as
\* it was.
C13_FrameKept ==
    [][/\ FrameCall =>
            /\ ds' = ds /\ trainset' = trainset /\ testset' = testset
            /\ out'.op \in {"Predict", "PredictPP"} =>
                  svd' = svd /\ svdpp' = svdpp
       /\ ~svd.built /\ svd'.built => svd'.GlobalMean = mean32(ds.Ratings)
       /\ ~svdpp.built /\ svdpp'.built =>
            /\ svdpp'.GlobalMean = mean32(ds.Ratings)
            /\ svdpp'.IU = BuildIU(ds, Len(ds.Users))
       /\ NoBuild /\ svd.built => svd'.built /\ SameMean(svd, svd')
       /\ NoBuild /\ svdpp.built =>
            /\ svdpp'.built /\ SameMean(svdpp, svdpp')
            /\ svdpp'.IU = svdpp.IU
      ]_vars

\* an SVDpp model has been fitted over a user with a history of two items:
\* the fit moved its parameters, and its GlobalMean and IU are those of
\* before
C13_Witness ==
    /\ out.op = "FitPP" /\ ~out.panic /\ out.numEpochs >= 1
    /\ svdpp.built /\ svdpp # out.before
    /\ \E u \in DOMAIN svdpp.IU : Len(svdpp.IU[u]) = 2
    /\ svdpp.YJ # out.before.YJ
    /\ svdpp.GlobalMean = out.before.GlobalMean
    /\ svdpp.IU = out.before.IU

---------------------------------------------------------------------------
(* C14: SVDpp.Predict against the estimate of SVDpp.Fit.                   *)

\* the last call was svdpp.Predict(u, i) with u and i both known
C14_KnownPair ==
    /\ out.op = "PredictPP" /\ ~out.panic
    /\ out.u \in DOMAIN ds.UserMap /\ out.i \in DOMAIN ds.ItemMap

\* the estimate SVDpp.Fit forms for the pair of the last call when it
\* computes err
C14_FitEstimate ==
    FitEstimatePP(svdpp, ds.UserMap[out.u], ds.ItemMap[out.i],
                  UImpFdb(svdpp, ds.UserMap[out.u]))

\* C14: for an SVDpp model in any parameter state and any known (user,
\* item) pair, SVDpp.Predict returns the score SVDpp.Fit uses as its
\* estimate of the pair when it forms err: GlobalMean + BU[u] + BI[i] + the
\* sum over f of (PU[u,f] + user_implicit[f]) * QI[i,f].
C14_PredictIsFitEstimate ==
    C14_KnownPair => out.val = C14_FitEstimate

=============================================================================
